---- MODULE Spec2Model ----
(***************************************************************************)
(* Model of src/parser/processors.js: the table of processor functions     *)
(* that turn the children of one parse tree node into an ESTree-like       *)
(* object, a token string or a list.                                       *)
(*                                                                         *)
(* JavaScript values are encoded uniformly as records [t, s, o]:           *)
(*   t = "str"   a string, s its characters                                *)
(*   t = "ref"   an object the model keeps in the heap, o its address      *)
(*   t = "node"  an object no processor reads or writes a field of,        *)
(*               s = <<label>>                                             *)
(*   t = "undef" / "null" / "bool" (o = 1 for true)                        *)
(* Record constructors list their fields in the order TLC keeps them in.   *)
(***************************************************************************)
EXTENDS Integers, Sequences, FiniteSets, TLC

VARIABLES pc, pending, registry, heap, call, result, vd

vars == <<pc, pending, registry, heap, call, result, vd>>

(* ---------------------------- bounds ----------------------------------- *)
\* most real children of one delimited list
MaxItems == 2
\* most objects the walker holds for later parents
MaxObjs == 2
\* most declarators in one declaration's child list
MaxDecls == 2

(* ---------------------------- values ----------------------------------- *)
Str(chars) == [t |-> "str", s |-> chars, o |-> 0]
Ref(addr) == [t |-> "ref", s |-> <<>>, o |-> addr]
Node(label) == [t |-> "node", s |-> <<label>>, o |-> 0]
Bool(b) == [t |-> "bool", s |-> <<>>, o |-> IF b THEN 1 ELSE 0]
Undefined == [t |-> "undef", s |-> <<>>, o |-> 0]
Null == [t |-> "null", s |-> <<>>, o |-> 0]

\* typeof v === 'string'
IsString(v) == v.t = "str"

\* one-character and keyword tokens
Tok(c) == Str(<<c>>)
Comma == Tok(",")
Semi == Tok(";")
Eq == Tok("=")
OpenParen == Tok("(")
CloseParen == Tok(")")
OpenBracket == Tok("[")
CloseBracket == Tok("]")
OpenBrace == Tok("{")
CloseBrace == Tok("}")
Colon == Tok(":")
Dot == Tok(".")
QMark == Tok("?")
PlusPlus == Str(<<"+", "+">>)
MinusMinus == Str(<<"-", "-">>)
KwTypeof == Str(<<"t", "y", "p", "e", "o", "f">>)
KwTrue == Str(<<"t", "r", "u", "e">>)
KwFalse == Str(<<"f", "a", "l", "s", "e">>)
KwNull == Str(<<"n", "u", "l", "l">>)
KwThis == Str(<<"t", "h", "i", "s">>)
KwVar == Str(<<"v", "a", "r">>)
KwIf == Str(<<"i", "f">>)
KwElse == Str(<<"e", "l", "s", "e">>)
KwWhile == Str(<<"w", "h", "i", "l", "e">>)
KwBreak == Str(<<"b", "r", "e", "a", "k">>)
KwContinue == Str(<<"c", "o", "n", "t", "i", "n", "u", "e">>)
KwReturn == Str(<<"r", "e", "t", "u", "r", "n">>)
KwFunction == Str(<<"f", "u", "n", "c", "t", "i", "o", "n">>)

\* the i-th argument of a call; a missing argument is undefined
Arg(a, i) == IF i <= Len(a) THEN a[i] ELSE Undefined

\* the rest parameter after the first k arguments
Rest(a, k) == SubSeq(a, k + 1, Len(a))

\* Array.prototype.filter with the test "differs from every member of drop"
RECURSIVE Filter(_, _)
Filter(list, drop) ==
  IF list = <<>> THEN <<>>
  ELSE IF Head(list) \in drop THEN Filter(Tail(list), drop)
       ELSE <<Head(list)>> \o Filter(Tail(list), drop)

\* RegExp.prototype.test for a pattern that is one literal string: does
\* chars hold pat as a substring
Contains(chars, pat) ==
  \E i \in 1..(Len(chars) - Len(pat) + 1) : SubSeq(chars, i, i + Len(pat) - 1) = pat

\* /pat$/.test(chars)
EndsWith(chars, pat) ==
  /\ Len(chars) >= Len(pat)
  /\ SubSeq(chars, Len(chars) - Len(pat) + 1, Len(chars)) = pat

(* ---------------------------- results ---------------------------------- *)
\* what one processor call gives back: an object it allocated, a list, one
\* of its arguments (or a token), or an exception
RNone == [shape |-> "none"]
RNode(n) == [shape |-> "node", node |-> n]
RList(l) == [list |-> l, shape |-> "list"]
RValue(v) == [shape |-> "value", value |-> v]
RThrow(e) == [shape |-> "throw", error |-> e]

(* ------------------------- literal decoding ---------------------------- *)
Digits == <<"0", "1", "2", "3", "4", "5", "6", "7", "8", "9">>

DigitVal(c) == (CHOOSE i \in 1..Len(Digits) : Digits[i] = c) - 1

\* the value of a decimal integer literal's text, as +raw and BigInt(raw)
\* compute it; both give 0 for the empty text
RECURSIVE ParseDec(_)
ParseDec(chars) ==
  IF chars = <<>> THEN 0
  ELSE ParseDec(SubSeq(chars, 1, Len(chars) - 1)) * Len(Digits) + DigitVal(chars[Len(chars)])

\* the characters a quoted literal's body denotes: a backslash before n is a
\* line feed, a backslash before another character is that character
RECURSIVE Unescape(_)
Unescape(chars) ==
  IF chars = <<>> THEN <<>>
  ELSE IF Head(chars) = "\\" /\ Len(chars) >= 2
       THEN <<IF chars[2] = "n" THEN "\n" ELSE chars[2]>> \o Unescape(Tail(Tail(chars)))
       ELSE <<Head(chars)>> \o Unescape(Tail(chars))

\* the position of the slash that closes a regular expression literal
LastSlash(chars) ==
  CHOOSE i \in 1..Len(chars) :
    chars[i] = "/" /\ \A j \in (i + 1)..Len(chars) : chars[j] # "/"

(* --------------------------- processors -------------------------------- *)
\* Each processor takes the argument list a of its call.

ArgList(a) == RList(Filter(Rest(a, 1), {Comma, CloseParen}))

ArrayExpression(a) ==
  RNode([type |-> "ArrayExpression",
         elements |-> Filter(Rest(a, 1), {Comma, CloseBracket})])

AssignmentExpression(a) ==
  RNode([type |-> "AssignmentExpression", left |-> Arg(a, 1),
         operator |-> Arg(a, 2), right |-> Arg(a, 3)])

\* /&&|\|\||\?\?/.test(op)
IsLogicalOp(op) ==
  \/ Contains(op.s, <<"&", "&">>)
  \/ Contains(op.s, <<"|", "|">>)
  \/ Contains(op.s, <<"?", "?">>)

\* variant: the logical type name misspelt
BinaryExpressionTypeTypo(op) ==
  IF IsLogicalOp(op) THEN "LogicalExpresion" ELSE "BinaryExpression"

BinaryExpressionType(op) ==
  IF IsLogicalOp(op) THEN "LogicalExpression" ELSE "BinaryExpression"

BinaryExpression(a) ==
  RNode([type |-> BinaryExpressionType(Arg(a, 2)), left |-> Arg(a, 1),
         operator |-> Arg(a, 2), right |-> Arg(a, 3)])

Block(a) ==
  RNode([type |-> "BlockStatement", body |-> Filter(Rest(a, 1), {CloseBrace})])

BooleanLiteral(a) ==
  RNode([value |-> Bool(Arg(a, 1) = KwTrue), type |-> "Literal", raw |-> Arg(a, 1)])

BreakStatement(a) ==
  RNode([label |-> IF Arg(a, 2) = Semi THEN Null ELSE Arg(a, 2),
         type |-> "BreakStatement"])

CallExpression(a) ==
  RNode([type |-> "CallExpression", callee |-> Arg(a, 1), arguments |-> Arg(a, 2)])

ConditionalExpression(a) ==
  RNode([type |-> "ConditionalExpression", test |-> Arg(a, 1),
         consequent |-> Arg(a, 3), alternate |-> Arg(a, 5)])

ContinueStatement(a) ==
  RNode([label |-> IF Arg(a, 2) = Semi THEN Null ELSE Arg(a, 2),
         type |-> "ContinueStatement"])

ExpressionStatement(a) ==
  RNode([type |-> "ExpressionStatement", expression |-> Arg(a, 1)])

\* the second parameter is destructured: { id }. Destructuring undefined or
\* null throws; a string has no id property.
FunctionDeclaration(a, h) ==
  LET second == Arg(a, 2) IN
  IF second.t \in {"undef", "null"} THEN RThrow("TypeError")
  ELSE RNode([type |-> "FunctionDeclaration", body |-> Arg(a, 4),
              id |-> IF second.t = "ref" THEN h[second.o].id ELSE Undefined,
              params |-> Arg(a, 3), async |-> FALSE, generator |-> FALSE])

IfStatement(a) ==
  RNode([type |-> "IfStatement", test |-> Arg(a, 2), consequent |-> Arg(a, 3),
         alternate |-> IF Arg(a, 5) = Undefined THEN Null ELSE Arg(a, 5)])

MemberExpression(a) ==
  RNode([type |-> "MemberExpression", object |-> Arg(a, 1), property |-> Arg(a, 3),
         computed |-> (Arg(a, 2) = OpenBracket)])

Number(a) ==
  LET raw == Arg(a, 1) IN
  RNode([value |-> IF EndsWith(raw.s, <<"n">>)
                   THEN [n |-> ParseDec(SubSeq(raw.s, 1, Len(raw.s) - 1)), bigint |-> TRUE]
                   ELSE [n |-> ParseDec(raw.s), bigint |-> FALSE],
         type |-> "Literal", raw |-> raw])

ObjectExpression(a) ==
  RNode([type |-> "ObjectExpression",
         properties |-> Filter(Rest(a, 1), {Comma, CloseBrace})])

ParamList(a) == RList(Filter(Rest(a, 1), {CloseParen}))

ParenthesizedExpression(a) == RValue(Arg(a, 2))

PostfixExpression(a) ==
  RNode([type |-> "UpdateExpression", operator |-> Arg(a, 2), prefix |-> FALSE,
         argument |-> Arg(a, 1)])

Property(a) ==
  IF Arg(a, 1) = OpenBracket
  THEN RNode([value |-> Arg(a, 5), type |-> "Property", computed |-> TRUE,
              kind |-> "init", key |-> Arg(a, 2), method |-> FALSE, shorthand |-> FALSE])
  ELSE RNode([value |-> Arg(a, 3), type |-> "Property", computed |-> FALSE,
              kind |-> "init", key |-> Arg(a, 1), method |-> FALSE, shorthand |-> FALSE])

PropertyName(a) == RNode([type |-> "Identifier", name |-> Arg(a, 1)])

PropertyNameDefinition(a) == RNode([type |-> "Identifier", name |-> Arg(a, 1)])

\* eval(raw) of /pattern/flags
RegExp(a) ==
  LET raw == Arg(a, 1)
      close == LastSlash(raw.s)
      regex == [pattern |-> Str(SubSeq(raw.s, 2, close - 1)),
                flags |-> Str(SubSeq(raw.s, close + 1, Len(raw.s)))]
  IN RNode([value |-> regex, type |-> "Literal", raw |-> raw, regex |-> regex])

ReturnStatement(a) == RNode([type |-> "ReturnStatement", argument |-> Arg(a, 2)])

Script(a) == RNode([type |-> "Program", body |-> a, sourceType |-> "script"])

SequenceExpression(a) ==
  RNode([type |-> "SequenceExpression", expressions |-> Filter(a, {Comma})])

\* eval(raw) of a quoted literal
String(a) ==
  LET raw == Arg(a, 1) IN
  RNode([value |-> Str(Unescape(SubSeq(raw.s, 2, Len(raw.s) - 1))), type |-> "Literal",
         raw |-> raw])

\* variant: the pattern /-|\+/, which a single sign matches
IsUpdateOpAnySign(operator) ==
  \/ Contains(operator.s, <<"-">>)
  \/ Contains(operator.s, <<"+">>)

\* /--|\+\+/.test(operator)
IsUpdateOp(operator) ==
  \/ Contains(operator.s, <<"-", "-">>)
  \/ Contains(operator.s, <<"+", "+">>)

UnaryPrefix(t1, t2) == IsString(t1)

UnaryExpression(a) ==
  LET t1 == Arg(a, 1)
      t2 == Arg(a, 2)
      prefix == UnaryPrefix(t1, t2)
      operator == IF prefix THEN t1 ELSE t2
      argument == IF prefix THEN t2 ELSE t1
  IN RNode([type |-> IF IsUpdateOp(operator) THEN "UpdateExpression" ELSE "UnaryExpression",
            operator |-> operator, prefix |-> prefix, argument |-> argument])

\* the object VariableDefinition allocates; VariableDeclaration adds init
Declarator(name) ==
  [type |-> "VariableDeclarator", id |-> [type |-> "Identifier", name |-> name],
   hasInit |-> FALSE, init |-> Undefined]

VariableName(a) ==
  LET name == Arg(a, 1) IN
  IF name \in {KwTrue, KwFalse, KwNull}
  THEN RNode([value |-> IF name = KwNull THEN Null ELSE Bool(name = KwTrue),
              type |-> "Literal"])
  ELSE IF name = KwThis THEN RNode([type |-> "ThisExpression"])
  ELSE RNode([type |-> "Identifier", name |-> name])

WhileStatement(a) ==
  RNode([type |-> "WhileStatement", body |-> Arg(a, 3), test |-> Arg(a, 2)])

\* (token) => token, registered for the operator kinds
Identity(a) == RValue(Arg(a, 1))

(* ---------------------------- registry --------------------------------- *)
\* the keys of the object literal; each maps to the method of that name
LiteralKinds ==
  {"ArgList", "ArrayExpression", "AssignmentExpression", "BinaryExpression", "Block",
   "BooleanLiteral", "BreakStatement", "CallExpression", "ConditionalExpression",
   "ContinueStatement", "ExpressionStatement", "FunctionDeclaration", "IfStatement",
   "MemberExpression", "Number", "ObjectExpression", "ParamList",
   "ParenthesizedExpression", "PostfixExpression", "Property", "PropertyName",
   "PropertyNameDefinition", "RegExp", "ReturnStatement", "Script",
   "SequenceExpression", "String", "UnaryExpression", "VariableDeclaration",
   "VariableDefinition", "VariableName", "WhileStatement"}

\* 'ArithOp BitOp CompareOp Equals LogicOp UpdateOp'.trim().split(/\s+/)
Noterms == <<"ArithOp", "BitOp", "CompareOp", "Equals", "LogicOp", "UpdateOp">>

\* kinds the walker may meet that the table has no entry for
UnknownKinds == {"ForStatement", "ArrowFunction"}

\* processors[noterm] = (token) => token
Registered(reg, noterm) ==
  [k \in DOMAIN reg \cup {noterm} |-> IF k = noterm THEN "Identity" ELSE reg[k]]

\* processors[kind]: the entry, or undefined when there is none
RBuilder(b) == [shape |-> "builder", builder |-> b]

Lookup(reg, kind) ==
  IF kind \in DOMAIN reg THEN RBuilder(reg[kind]) ELSE RValue(Undefined)

(* ------------------------------ state ---------------------------------- *)
NoCall == [heap |-> <<>>, op |-> "none", kind |-> "", args |-> <<>>]

VdIdle == [pc |-> "idle", op |-> Undefined, kind |-> Undefined, defs |-> <<>>,
           declarations |-> <<>>]

Init ==
  /\ pc = "loading"
  /\ pending = Noterms
  /\ registry = [k \in LiteralKinds |-> k]
  /\ heap = <<>>
  /\ call = NoCall
  /\ result = RNone
  /\ vd = VdIdle

(* --------------------------- module load ------------------------------- *)
\* one turn of the forEach over the operator kinds
Register ==
  /\ pending # <<>>
  /\ registry' = Registered(registry, Head(pending))
  /\ pending' = Tail(pending)
  /\ UNCHANGED <<pc, heap, call, result, vd>>

\* variant: the table is exported while operator kinds are still to be
\* registered
CanExportEarly == pc = "loading"

\* module.exports = processors is reached when the forEach has returned
CanExport == pc = "loading" /\ pending = <<>>

Export ==
  /\ CanExport
  /\ pc' = "exported"
  /\ UNCHANGED <<pending, registry, heap, call, result, vd>>

(* ------------------------ the walker's inputs -------------------------- *)
\* objects built for earlier nodes, whose fields no processor looks at
Exprs == {Node("e1"), Node("e2")}

ItemSeqs == UNION {[1..k -> Exprs] : k \in 0..MaxItems}

RECURSIVE Join(_, _)
Join(items, sep) ==
  IF Len(items) <= 1 THEN items
  ELSE <<Head(items), sep>> \o Join(Tail(items), sep)

\* open item (sep item)* close
Delimited(open, sep, close) ==
  {<<open>> \o Join(items, sep) \o <<close>> : items \in ItemSeqs}

BlockInputs == {<<OpenBrace>> \o items \o <<CloseBrace>> : items \in ItemSeqs}

SequenceInputs == {Join(items, Comma) : items \in {i \in ItemSeqs : Len(i) >= 2}}

BinaryOps ==
  {Tok("+"), Tok("&"), Tok("|"), Str(<<"&", "&">>), Str(<<"|", "|">>),
   Str(<<"?", "?">>), Str(<<"=", "=">>)}

PrefixOps == {PlusPlus, MinusMinus, KwTypeof, Tok("-"), Tok("+"), Tok("!"), Tok("~")}

PostfixOps == {PlusPlus, MinusMinus}

UnaryInputs ==
  {<<op, Node("e1")>> : op \in PrefixOps} \cup {<<Node("e1"), op>> : op \in PostfixOps}

NumberRaws == {Str(<<"7">>), Str(<<"1", "0">>), Str(<<"1", "0", "n">>)}

StringRaws == {Str(<<"'", "a", "'">>), Str(<<"\"", "a", "\\", "n", "b", "\"">>)}

RegExpRaws == {Str(<<"/", "a", "b", "/", "g">>), Str(<<"/", "a", "/">>)}

Names == {Tok("x"), Tok("y")}

NameTokens == {Tok("a"), KwTrue, KwFalse, KwNull, KwThis}

(* ----------------------- calls of the processors ------------------------ *)
\* the walker calls processors only once it has required the module, and
\* one at a time
Ready == pc = "exported" /\ vd.pc = "idle"

\* The heap holds the objects the walker has built and not yet handed to a
\* parent node's processor. An object handed over belongs to that parent's
\* result: the objects among the last call's arguments are no longer held.
Consumed ==
  {call.args[i].o : i \in {j \in 1..Len(call.args) : call.args[j].t = "ref"}}

RECURSIVE Without(_, _, _)
Without(h, drop, i) ==
  IF i > Len(h) THEN <<>>
  ELSE (IF i \in drop THEN <<>> ELSE <<h[i]>>) \o Without(h, drop, i + 1)

Held == Without(heap, Consumed, 1)

\* processors[kind](...a) returning r without touching any object
Call(kind, a, r) ==
  /\ Ready
  /\ kind \in DOMAIN registry
  /\ call' = [heap |-> Held, op |-> "invoke", kind |-> kind, args |-> a]
  /\ result' = r
  /\ heap' = Held
  /\ UNCHANGED <<pc, pending, registry, vd>>

\* the walker reads processors[kind]
LookupKind ==
  /\ Ready
  /\ \E kind \in DOMAIN registry \cup UnknownKinds :
       /\ call' = [heap |-> Held, op |-> "lookup", kind |-> kind, args |-> <<>>]
       /\ result' = Lookup(registry, kind)
  /\ heap' = Held
  /\ UNCHANGED <<pc, pending, registry, vd>>

CallArgList ==
  \E a \in Delimited(OpenParen, Comma, CloseParen) : Call("ArgList", a, ArgList(a))

CallArrayExpression ==
  \E a \in Delimited(OpenBracket, Comma, CloseBracket) :
    Call("ArrayExpression", a, ArrayExpression(a))

CallAssignmentExpression ==
  \E op \in {Eq, Str(<<"+", "=">>)} :
    LET a == <<Node("e1"), op, Node("e2")>> IN
    Call("AssignmentExpression", a, AssignmentExpression(a))

CallBinaryExpression ==
  \E op \in BinaryOps :
    LET a == <<Node("e1"), op, Node("e2")>> IN
    Call("BinaryExpression", a, BinaryExpression(a))

CallBlock == \E a \in BlockInputs : Call("Block", a, Block(a))

CallBooleanLiteral ==
  \E raw \in {KwTrue, KwFalse} : Call("BooleanLiteral", <<raw>>, BooleanLiteral(<<raw>>))

CallBreakStatement ==
  \E a \in {<<KwBreak, Semi>>, <<KwBreak, Node("label"), Semi>>} :
    Call("BreakStatement", a, BreakStatement(a))

CallCallExpression ==
  LET a == <<Node("e1"), Node("args")>> IN Call("CallExpression", a, CallExpression(a))

CallConditionalExpression ==
  LET a == <<Node("e1"), QMark, Node("e2"), Colon, Node("e1")>> IN
  Call("ConditionalExpression", a, ConditionalExpression(a))

CallContinueStatement ==
  \E a \in {<<KwContinue, Semi>>, <<KwContinue, Node("label"), Semi>>} :
    Call("ContinueStatement", a, ContinueStatement(a))

CallExpressionStatement ==
  \E e \in Exprs : Call("ExpressionStatement", <<e, Semi>>, ExpressionStatement(<<e, Semi>>))

CallFunctionDeclaration ==
  \E d \in 1..Len(Held) :
    LET a == <<KwFunction, Ref(d), Node("params"), Node("block")>> IN
    Call("FunctionDeclaration", a, FunctionDeclaration(a, Held))

CallIfStatement ==
  \E a \in {<<KwIf, Node("e1"), Node("block")>>,
            <<KwIf, Node("e1"), Node("block"), KwElse, Node("e2")>>} :
    Call("IfStatement", a, IfStatement(a))

CallMemberExpression ==
  \E a \in {<<Node("e1"), Dot, Node("e2")>>,
            <<Node("e1"), OpenBracket, Node("e2"), CloseBracket>>} :
    Call("MemberExpression", a, MemberExpression(a))

CallNumber == \E raw \in NumberRaws : Call("Number", <<raw>>, Number(<<raw>>))

CallObjectExpression ==
  \E a \in Delimited(OpenBrace, Comma, CloseBrace) :
    Call("ObjectExpression", a, ObjectExpression(a))

CallParamList ==
  \E a \in Delimited(OpenParen, Comma, CloseParen) : Call("ParamList", a, ParamList(a))

CallParenthesizedExpression ==
  \E e \in Exprs :
    LET a == <<OpenParen, e, CloseParen>> IN
    Call("ParenthesizedExpression", a, ParenthesizedExpression(a))

CallPostfixExpression ==
  \E op \in PostfixOps :
    LET a == <<Node("e1"), op>> IN Call("PostfixExpression", a, PostfixExpression(a))

CallProperty ==
  \E a \in {<<Node("key"), Colon, Node("e1")>>,
            <<OpenBracket, Node("e2"), CloseBracket, Colon, Node("e1")>>} :
    Call("Property", a, Property(a))

CallPropertyName ==
  \E name \in Names : Call("PropertyName", <<name>>, PropertyName(<<name>>))

CallPropertyNameDefinition ==
  \E name \in Names :
    Call("PropertyNameDefinition", <<name>>, PropertyNameDefinition(<<name>>))

CallRegExp == \E raw \in RegExpRaws : Call("RegExp", <<raw>>, RegExp(<<raw>>))

CallReturnStatement ==
  \E a \in {<<KwReturn, Node("e1"), Semi>>} : Call("ReturnStatement", a, ReturnStatement(a))

CallScript == \E a \in ItemSeqs : Call("Script", a, Script(a))

CallSequenceExpression ==
  \E a \in SequenceInputs : Call("SequenceExpression", a, SequenceExpression(a))

CallString == \E raw \in StringRaws : Call("String", <<raw>>, String(<<raw>>))

CallUnaryExpression == \E a \in UnaryInputs : Call("UnaryExpression", a, UnaryExpression(a))

CallVariableName ==
  \E name \in NameTokens : Call("VariableName", <<name>>, VariableName(<<name>>))

CallWhileStatement ==
  LET a == <<KwWhile, Node("e1"), Node("block")>> IN
  Call("WhileStatement", a, WhileStatement(a))

\* the operator kinds: the token comes back as it went in
CallIdentity ==
  \E kind \in {k \in DOMAIN registry : registry[k] = "Identity"} :
    \E token \in {PlusPlus, Tok("+")} : Call(kind, <<token>>, Identity(<<token>>))

\* VariableDefinition allocates the declarator the walker later hands to
\* VariableDeclaration or FunctionDeclaration
RObject(addr) == [addr |-> addr, shape |-> "object"]

VariableDefinition ==
  /\ Ready
  /\ "VariableDefinition" \in DOMAIN registry
  /\ Len(Held) < MaxObjs
  /\ \E name \in Names :
       /\ heap' = Append(Held, Declarator(name))
       /\ call' = [heap |-> Held, op |-> "invoke", kind |-> "VariableDefinition",
                   args |-> <<name>>]
  /\ result' = RObject(Len(Held) + 1)
  /\ UNCHANGED <<pc, pending, registry, vd>>

(* ----------------------- VariableDeclaration ---------------------------- *)
\* one declarator of a declaration's child list, with or without initializer
Unit(d, init) == IF init = Undefined THEN <<Ref(d)>> ELSE <<Ref(d), Eq, init>>

\* declarator (= init)? (, declarator (= init)?)* over held declarators, at
\* most n of them, in the order they were built: the walker goes through a
\* node's children left to right
RECURSIVE DeclLists(_, _)
DeclLists(n, avail) ==
  IF n = 0 THEN {}
  ELSE LET units == {<<d, Unit(d, init)>> : d \in avail, init \in {Undefined} \cup Exprs}
       IN {u[2] : u \in units}
          \cup UNION {{u[2] \o <<Comma>> \o rest : rest \in DeclLists(n - 1, {d \in avail : d > u[1]})}
                      : u \in units}

\* the child lists the grammar produces, after the kind keyword
WellFormedDefs(h) == {l \o <<Semi>> : l \in DeclLists(MaxDecls, 1..Len(h))}

\* lists cut short, and lists with a child after the terminator
MalformedDefs(h) ==
  UNION {{SubSeq(w, 1, k) : k \in 0..(Len(w) - 1)} \cup {w \o <<Comma>>}
         : w \in WellFormedDefs(h)}

\* defs.shift() leaves the array without its first element, if it had one
Shifted(defs) == IF defs = <<>> THEN <<>> ELSE Tail(defs)

\* if (op === '=')
HasInitializer(op) == op = Eq

\* variant: while (op !== ';')
ContinuesUnlessSemi(op) == op # Semi

\* while (op === ',')
Continues(op) == op = Comma

\* variant: the else branch (decl.init = null) left out
SetInitOnlyGiven(h, decl, init) ==
  IF decl.t = "ref" /\ init # Null
  THEN [h EXCEPT ![decl.o] = [@ EXCEPT !.hasInit = TRUE, !.init = init]]
  ELSE h

\* decl.init = init; a property written on a primitive is dropped
SetInit(h, decl, init) ==
  IF decl.t = "ref"
  THEN [h EXCEPT ![decl.o] = [@ EXCEPT !.hasInit = TRUE, !.init = init]]
  ELSE h

\* VariableDeclaration(kind, ...defs) is entered
VDCall ==
  /\ Ready
  /\ "VariableDeclaration" \in DOMAIN registry
  /\ \E defs \in WellFormedDefs(Held) \cup MalformedDefs(Held) \cup {<<>>} :
       /\ call' = [heap |-> Held, op |-> "invoke",
                   kind |-> "VariableDeclaration", args |-> <<KwVar>> \o defs]
       /\ vd' = [pc |-> "loop", op |-> Undefined, kind |-> KwVar, defs |-> defs,
                 declarations |-> <<>>]
  /\ result' = RNone
  /\ heap' = Held
  /\ UNCHANGED <<pc, pending, registry>>

\* one pass through the body of the do ... while
VDStep ==
  /\ vd.pc = "loop"
  /\ LET decl == Arg(vd.defs, 1)
         defs1 == Shifted(vd.defs)
         op1 == Arg(defs1, 1)
         defs2 == Shifted(defs1)
         hasEq == HasInitializer(op1)
         init == IF hasEq THEN Arg(defs2, 1) ELSE Null
         op2 == IF hasEq THEN Arg(Shifted(defs2), 1) ELSE op1
         defs3 == IF hasEq THEN Shifted(Shifted(defs2)) ELSE defs2
     IN IF decl.t \in {"undef", "null"}
        THEN \* decl.init = ... on undefined throws out of the processor
             /\ vd' = VdIdle
             /\ result' = RThrow("TypeError")
             /\ heap' = heap
        ELSE /\ heap' = SetInit(heap, decl, init)
             /\ vd' = [vd EXCEPT !.pc = IF Continues(op2) THEN "loop" ELSE "return",
                                 !.defs = defs3,
                                 !.declarations = Append(vd.declarations, decl),
                                 !.op = op2]
             /\ result' = result
  /\ UNCHANGED <<pc, pending, registry, call>>

\* return { type: 'VariableDeclaration', kind, declarations }
VDReturn ==
  /\ vd.pc = "return"
  /\ result' = RNode([type |-> "VariableDeclaration", kind |-> vd.kind,
                      declarations |-> vd.declarations])
  /\ vd' = VdIdle
  /\ UNCHANGED <<pc, pending, registry, heap, call>>

(* --------------------------- specification ----------------------------- *)
Next ==
  \/ Register
  \/ Export
  \/ LookupKind
  \/ CallArgList
  \/ CallArrayExpression
  \/ CallAssignmentExpression
  \/ CallBinaryExpression
  \/ CallBlock
  \/ CallBooleanLiteral
  \/ CallBreakStatement
  \/ CallCallExpression
  \/ CallConditionalExpression
  \/ CallContinueStatement
  \/ CallExpressionStatement
  \/ CallFunctionDeclaration
  \/ CallIfStatement
  \/ CallMemberExpression
  \/ CallNumber
  \/ CallObjectExpression
  \/ CallParamList
  \/ CallParenthesizedExpression
  \/ CallPostfixExpression
  \/ CallProperty
  \/ CallPropertyName
  \/ CallPropertyNameDefinition
  \/ CallRegExp
  \/ CallReturnStatement
  \/ CallScript
  \/ CallSequenceExpression
  \/ CallString
  \/ CallUnaryExpression
  \/ CallVariableName
  \/ CallWhileStatement
  \/ CallIdentity
  \/ VariableDefinition
  \/ VDCall
  \/ VDStep
  \/ VDReturn

Spec == Init /\ [][Next]_vars

\* the declaration processor alone, run to completion once entered: the
\* processors are synchronous, so an entered loop is always carried on
NextVD ==
  \/ Register
  \/ Export
  \/ VariableDefinition
  \/ VDCall
  \/ VDStep
  \/ VDReturn

FairSpecVD == Init /\ [][NextVD]_vars /\ WF_vars(VDStep) /\ WF_vars(VDReturn)

(* ------------------------------ claims --------------------------------- *)
\* a processor call of this kind has come back (returned or thrown)
Returned(kind) ==
  /\ call.op = "invoke"
  /\ call.kind = kind
  /\ vd.pc = "idle"
  /\ result.shape # "none"

SeqKinds == {"ArgList", "ParamList", "ArrayExpression", "ObjectExpression", "Block"}

FilterKinds == SeqKinds \cup {"SequenceExpression"}

\* the list a sequence processor gave back
OutputList ==
  CASE call.kind \in {"ArgList", "ParamList"} -> result.list
    [] call.kind = "ArrayExpression" -> result.node.elements
    [] call.kind = "ObjectExpression" -> result.node.properties
    [] call.kind = "Block" -> result.node.body
    [] call.kind = "SequenceExpression" -> result.node.expressions

Delimiters == {Comma, CloseParen, CloseBracket, CloseBrace}

\* C1: the list that ArgList, ParamList, ArrayExpression, ObjectExpression or
\* Block gives back holds none of the delimiter strings , ) ] }
C1_NoDelimiterInOutput ==
  (call.op = "invoke" /\ call.kind \in SeqKinds) =>
    \A i \in 1..Len(OutputList) : OutputList[i] \notin Delimiters

IsRef(v) == v.t = "ref"

NotString(v) == ~IsString(v)

\* the child list of the last call without the kind keyword
CallDefs == Rest(call.args, 1)

\* C2: for a well-formed child list, VariableDeclaration returns a node whose
\* declarations are the list's declarators in order, each with init equal to
\* the child after its '=' or, without '=', null
C2_DeclarationFolding ==
  (Returned("VariableDeclaration") /\ CallDefs \in WellFormedDefs(call.heap)) =>
    /\ result.shape = "node"
    /\ result.node.type = "VariableDeclaration"
    /\ result.node.declarations = SelectSeq(CallDefs, IsRef)
    /\ \A i \in 1..Len(CallDefs) :
         IsRef(CallDefs[i]) =>
           /\ heap[CallDefs[i].o].hasInit
           /\ heap[CallDefs[i].o].init =
                (IF Arg(CallDefs, i + 1) = Eq THEN Arg(CallDefs, i + 2) ELSE Null)

\* the example [decl1, '=', init1, ',', decl2, ';'] has been folded
C2_Witness ==
  /\ Returned("VariableDeclaration")
  /\ CallDefs = <<Ref(1), Eq, Node("e1"), Comma, Ref(2), Semi>>
  /\ result.shape = "node"
  /\ Len(result.node.declarations) = 2

\* C3: after a processor call every object passed to it has the fields and
\* field values it had before the call (stated for the child lists the
\* grammar produces)
C3_ChildrenUnchanged ==
  (/\ call.op = "invoke" /\ vd.pc = "idle" /\ result.shape # "none"
   /\ call.kind = "VariableDeclaration" => CallDefs \in WellFormedDefs(call.heap)) =>
    \A i \in 1..Len(call.args) :
      IsRef(call.args[i]) => heap[call.args[i].o] = call.heap[call.args[i].o]

\* C4: UnaryExpression of two children, one of them a string: prefix says
\* whether the string comes first, operator is the string and argument the
\* other child, and the type is UpdateExpression for ++ and --,
\* UnaryExpression for every other operator
C4_UnaryShape ==
  (Returned("UnaryExpression") /\ Len(call.args) = 2
     /\ IsString(call.args[1]) # IsString(call.args[2])) =>
    LET first == IsString(call.args[1])
        operator == IF first THEN call.args[1] ELSE call.args[2]
        argument == IF first THEN call.args[2] ELSE call.args[1]
    IN /\ result.shape = "node"
       /\ result.node.prefix = first
       /\ result.node.operator = operator
       /\ result.node.argument = argument
       /\ result.node.type =
            (IF operator \in {PlusPlus, MinusMinus} THEN "UpdateExpression"
             ELSE "UnaryExpression")

\* x++ has been built: the operator is the second child
C4_Witness ==
  /\ Returned("UnaryExpression")
  /\ call.args = <<Node("e1"), PlusPlus>>
  /\ result.node.type = "UpdateExpression"
  /\ ~result.node.prefix

\* C5: a child list that is empty or does not end in the terminator makes
\* VariableDeclaration fail: the call ends in an error, no node comes back
C5_MalformedRejected ==
  (Returned("VariableDeclaration") /\ CallDefs \notin WellFormedDefs(call.heap)) =>
    result.shape = "throw"

\* C6: looking up a kind the table has no entry for raises
\* UnsupportedNodeKind; it is not answered with undefined
C6_UnknownKindRaises ==
  (call.op = "lookup" /\ call.kind \notin DOMAIN registry) =>
    /\ result.shape = "throw"
    /\ result.error = "UnsupportedNodeKind"

\* the node type names of the ESTree schema (ES5)
ASTKinds ==
  {"Program", "EmptyStatement", "BlockStatement", "ExpressionStatement", "IfStatement",
   "LabeledStatement", "BreakStatement", "ContinueStatement", "WithStatement",
   "SwitchStatement", "ReturnStatement", "ThrowStatement", "TryStatement",
   "WhileStatement", "DoWhileStatement", "ForStatement", "ForInStatement",
   "DebuggerStatement", "FunctionDeclaration", "VariableDeclaration",
   "VariableDeclarator", "ThisExpression", "ArrayExpression", "ObjectExpression",
   "Property", "FunctionExpression", "SequenceExpression", "UnaryExpression",
   "BinaryExpression", "AssignmentExpression", "UpdateExpression", "LogicalExpression",
   "ConditionalExpression", "CallExpression", "NewExpression", "MemberExpression",
   "SwitchCase", "CatchClause", "Identifier", "Literal"}

\* C7: every object a processor allocates and returns has a type that is one
\* of the schema's node type names
C7_TypeInSchema ==
  /\ result.shape = "node" => result.node.type \in ASTKinds
  /\ result.shape = "object" =>
       /\ heap[result.addr].type \in ASTKinds
       /\ heap[result.addr].id.type \in ASTKinds

\* a && b has been built
C7_Witness ==
  /\ Returned("BinaryExpression")
  /\ call.args[2] = Str(<<"&", "&">>)
  /\ result.node.type = "LogicalExpression"

C9_FilterKeepsRealChildren ==
  (call.op = "invoke" /\ call.kind \in FilterKinds) =>
    OutputList = SelectSeq(IF call.kind = "SequenceExpression" THEN call.args
                           ELSE Rest(call.args, 1), NotString)

Taken == Len(CallDefs) - Len(vd.defs)

====
